---- MODULE Spec2Model ----
(***************************************************************************)
(* Role-based route guard, public route gate, root redirect wrapper and    *)
(* role router of client/src/App.tsx (react-router build) and of its       *)
(* wouter twin (src/unnamed/part_000), and the FileUploader widget of      *)
(* client/src/components/ui/file-uploader.tsx.                             *)
(*                                                                         *)
(* JavaScript values are modelled as strings: a path is its text,          *)
(* null / undefined are the sentinels below, and a member inherited from   *)
(* Object.prototype is InheritedMember.  A session object is a record      *)
(* [role, id]; id stands for the object's identity (Object.is).            *)
(***************************************************************************)
EXTENDS Integers, Sequences, FiniteSets, TLC

VARIABLES
    build,           \* which App module is bundled: "router" (App.tsx) or "wouter" (part_000)
    user,            \* useAuth().user : NULL or a session object
    isLoading,       \* useAuth().isLoading
    logout,          \* useAuth().logout : Undefined or a function identity
    location,        \* the router's current path
    initialRoleRef,  \* initialRoleRef.current of the mounted guard (RefNull when none is mounted)
    logoutCalls,     \* number of logout() invocations made by the effect of the latest commit
    logoutPending,   \* the Session Provider has been asked to log out and has not yet cleared the session
    file,            \* FileUploader: useState<File | null>
    isDragging,      \* FileUploader: useState(false)
    isUploading,     \* FileUploader: useState(false)
    uploadSuccess,   \* FileUploader: useState(false)
    inFlight,        \* invocations of onFileUpload that have not settled: sequence of the files passed
    timers,          \* pending setTimeout callbacks of handleUpload, oldest first: [left, file, ok]
    lastEvent        \* the handler that ran last and the file list it was given

routeVars == <<build, user, isLoading, logout, location, initialRoleRef, logoutCalls, logoutPending>>
uploadVars == <<file, isDragging, isUploading, uploadSuccess, inFlight, timers, lastEvent>>
vars == <<build, user, isLoading, logout, location, initialRoleRef, logoutCalls, logoutPending,
          file, isDragging, isUploading, uploadSuccess, inFlight, timers, lastEvent>>

----------------------------------------------------------------------------
(* Bounds *)

\* distinct session object identities the Session Provider hands out
MaxSessionObjects == 2

\* files in one drop or one picker selection
MaxFiles == 2

\* uploads in flight plus reset timers pending at any one time
MaxTimers == 2

----------------------------------------------------------------------------
(* JavaScript values *)

NULL == [null |-> TRUE]
RefNull == "<null>"
Undefined == "<undefined>"
InheritedMember == "<Object.prototype member>"
NoPath == "<none>"
NoFile == "<no file>"

\* role strings a session may carry: the keys of the table, the empty string,
\* a string that is no key, and a name every object literal inherits
Roles == {"super_admin", "admin", "builder", "telecaller", "broker", "ca", "user",
          "", "guest", "constructor"}

Sessions == [role : Roles, id : 0 .. (MaxSessionObjects - 1)]

LogoutFns == {"logoutA", "logoutB"}

\* `!x` for the values a ref or a lookup can hold
Falsy(v) == v = RefNull \/ v = Undefined \/ v = ""

----------------------------------------------------------------------------
(* Role Router *)

RouteKeys == {"super_admin", "admin", "builder", "telecaller", "broker", "ca", "user"}

routes(role) ==
    CASE role \in {"super_admin", "admin"} -> "/admin"
      [] role = "builder" -> "/builder-dashboard"
      [] role = "telecaller" -> "/telecaller"
      [] role = "broker" -> "/broker"
      [] role = "ca" -> "/ca"
      [] role = "user" -> "/dashboard"

\* names that `routes[role]` finds on Object.prototype when role is no own key
ObjectPrototypeKeys == {"constructor", "toString", "valueOf", "hasOwnProperty",
                        "isPrototypeOf", "propertyIsEnumerable", "toLocaleString",
                        "__proto__"}

\* routes[role] : own property, else inherited property, else undefined
RoutesLookup(role) ==
    IF role \in RouteKeys THEN routes(role)
    ELSE IF role \in ObjectPrototypeKeys THEN InheritedMember
    ELSE Undefined

\* routes[role] || "/dashboard"
getRoleBasedRoute(role) ==
    IF Falsy(RoutesLookup(role)) THEN "/dashboard" ELSE RoutesLookup(role)

----------------------------------------------------------------------------
(* What a route element renders *)

Spinner == [kind |-> "spinner", to |-> NoPath]
Children == [kind |-> "children", to |-> NoPath]
Layout == [kind |-> "layout", to |-> NoPath]
NotFound == [kind |-> "notfound", to |-> NoPath]
Redirect(to) == [kind |-> "redirect", to |-> to]

\* mutant: the session is tested before the loading flag
ProtectedLayoutUserFirst(u, loading) ==
    IF u = NULL THEN Redirect("/login")
    ELSE IF loading THEN Spinner
    ELSE Layout

\* App.tsx ProtectedLayout, render part
ProtectedLayout(u, loading) ==
    IF loading THEN Spinner
    ELSE IF u = NULL THEN Redirect("/login")
    ELSE Layout

\* mutant: the guard forgets the session test
ProtectedRouteNoSessionTest(u, loading) ==
    IF loading THEN Spinner ELSE Layout

\* part_000 ProtectedRoute, render part
ProtectedRoute(u, loading) ==
    IF loading THEN Spinner
    ELSE IF u = NULL THEN Redirect("/login")
    ELSE Layout

\* components/auth/RoleBasedRedirect (imported, not among the sources):
\* redirects to the role's landing path
RoleBasedRedirect(u) == Redirect(getRoleBasedRoute(u.role))

\* mutant: the gate redirects only sessions of a mapped role
PublicRouteMappedOnly(u, loading) ==
    IF loading THEN Spinner
    ELSE IF u # NULL /\ u.role \in RouteKeys THEN RoleBasedRedirect(u)
    ELSE Children

PublicRoute(u, loading) ==
    IF loading THEN Spinner
    ELSE IF u # NULL THEN RoleBasedRedirect(u)
    ELSE Children

\* App.tsx RoleBasedRedirectWrapper
RoleBasedRedirectWrapper(u, loading) ==
    IF loading THEN Spinner
    ELSE Redirect(IF u # NULL THEN getRoleBasedRoute(u.role) ELSE "/login")

\* part_000 RoleBasedRedirectWrapper: reads only `user`
RoleBasedRedirectWrapperWouter(u) ==
    Redirect(IF u # NULL THEN getRoleBasedRoute(u.role) ELSE "/login")

----------------------------------------------------------------------------
(* Route table *)

PublicPaths == {"/login", "/register"}

\* the protected paths that are landing paths, and one that is not
ProtectedPaths == {"/dashboard", "/admin", "/builder-dashboard", "/telecaller",
                   "/broker", "/ca", "/upload"}

Paths == PublicPaths \cup ProtectedPaths \cup {"/", "/no-such-page"}

GuardMounted(loc) == loc \in ProtectedPaths

\* AppRouter / Router: the element the route table renders at loc
RouteElement(b, loc, u, loading) ==
    IF loc \in PublicPaths THEN PublicRoute(u, loading)
    ELSE IF loc \in ProtectedPaths
         THEN (IF b = "router" THEN ProtectedLayout(u, loading) ELSE ProtectedRoute(u, loading))
    ELSE IF loc = "/"
         THEN (IF b = "router" THEN RoleBasedRedirectWrapper(u, loading)
                               ELSE RoleBasedRedirectWrapperWouter(u))
    ELSE NotFound

View == RouteElement(build, location, user, isLoading)

RedirectPending == View.kind = "redirect"

----------------------------------------------------------------------------
(* Route Guard effect *)

\* mutant: the baseline is stored on every run, not only while it is unset
GuardEffectOverwrites(ref, u, lg) ==
    IF u = NULL THEN [ref |-> ref, calls |-> 0]
    ELSE LET r == u.role
         IN [ref |-> r,
             calls |-> IF r # u.role /\ lg # Undefined THEN 1 ELSE 0]

\* the body of the guard's useEffect: the ref after it, and how often it called logout
GuardEffect(ref, u, lg) ==
    IF u = NULL THEN [ref |-> ref, calls |-> 0]
    ELSE LET r == IF Falsy(ref) THEN u.role ELSE ref
         IN [ref |-> r,
             calls |-> IF r # u.role /\ lg # Undefined THEN 1 ELSE 0]

\* useEffect(..., [user, logout]): runs after mount and after a commit whose deps changed
EffectRuns(u2, lg2, loc2) ==
    /\ GuardMounted(loc2)
    /\ \/ ~GuardMounted(location)
       \/ <<u2, lg2>> # <<user, logout>>

\* One commit: the route table renders for (u2, loading2, lg2, loc2), the guard
\* instance is kept, created or dropped, and its effect runs if due.
Commit(u2, loading2, lg2, loc2, pending) ==
    LET refBefore == IF GuardMounted(location) THEN initialRoleRef ELSE RefNull
        eff == GuardEffect(refBefore, u2, lg2)
        runs == EffectRuns(u2, lg2, loc2)
    IN /\ user' = u2
       /\ isLoading' = loading2
       /\ logout' = lg2
       /\ location' = loc2
       /\ initialRoleRef' = IF ~GuardMounted(loc2) THEN RefNull
                            ELSE IF runs THEN eff.ref ELSE refBefore
       /\ logoutCalls' = IF runs THEN eff.calls ELSE 0
       /\ logoutPending' = (pending \/ (runs /\ eff.calls > 0))
       /\ UNCHANGED build

----------------------------------------------------------------------------
(* Routing actions *)

\* the Session Provider publishes a new context value; a session object that
\* differs in role or id is a new object for the effect's dependency test
ProviderUpdate ==
    /\ ~RedirectPending
    /\ \E u \in Sessions \cup {NULL}, l \in BOOLEAN, lg \in LogoutFns \cup {Undefined} :
          /\ <<u, l, lg>> # <<user, isLoading, logout>>
          /\ Commit(u, l, lg, location, logoutPending)
    /\ UNCHANGED uploadVars

\* the Session Provider carries out a requested logout: the session is cleared
ProviderLogout ==
    /\ ~RedirectPending
    /\ logoutPending
    /\ Commit(NULL, isLoading, logout, location, FALSE)
    /\ UNCHANGED uploadVars

\* the visitor opens a URL
UserNavigate ==
    /\ ~RedirectPending
    /\ \E p \in Paths :
          /\ p # location
          /\ Commit(user, isLoading, logout, p, logoutPending)
    /\ UNCHANGED uploadVars

\* <Navigate to=... /> / <Redirect to=... /> takes effect
Navigate ==
    /\ RedirectPending
    /\ \E p \in Paths :
          /\ (View.to \in Paths) => p = View.to
          /\ Commit(user, isLoading, logout, p, logoutPending)
    /\ UNCHANGED uploadVars

----------------------------------------------------------------------------
(* Upload Widget *)

\* setTimeout(..., 3000), in seconds
ResetDelay == 3

Files == {"a.csv", "b.csv"}

\* e.dataTransfer.files / e.target.files
FileLists == UNION {[1 .. n -> Files] : n \in 0 .. MaxFiles}

Event(op) == [op |-> op, files |-> <<>>]

RemoveAt(q, i) == [j \in 1 .. (Len(q) - 1) |-> IF j < i THEN q[j] ELSE q[j + 1]]

\* mutant: the submit button is not disabled during an upload
ButtonDisabledNotWhileUploading == file = NoFile \/ uploadSuccess

\* disabled={!file || isUploading || uploadSuccess}
ButtonDisabled == file = NoFile \/ isUploading \/ uploadSuccess

handleDragEnter ==
    /\ isDragging' = TRUE
    /\ lastEvent' = Event("dragenter")
    /\ UNCHANGED <<file, isUploading, uploadSuccess, inFlight, timers>>
    /\ UNCHANGED routeVars

handleDragLeave ==
    /\ isDragging' = FALSE
    /\ lastEvent' = Event("dragleave")
    /\ UNCHANGED <<file, isUploading, uploadSuccess, inFlight, timers>>
    /\ UNCHANGED routeVars

\* mutant: a drop keeps the success flag
handleDropKeepsFlag ==
    \E fs \in FileLists :
       /\ isDragging' = FALSE
       /\ file' = IF Len(fs) > 0 THEN fs[1] ELSE file
       /\ lastEvent' = [op |-> "drop", files |-> fs]
       /\ UNCHANGED <<isUploading, uploadSuccess, inFlight, timers>>
       /\ UNCHANGED routeVars

\* The drop zone and the picker are rendered while no file is selected and
\* stay in the page while AnimatePresence plays their exit, so a selection can
\* also arrive when a file is already selected.
handleDrop ==
    \E fs \in FileLists :
       /\ isDragging' = FALSE
       /\ IF Len(fs) > 0
          THEN file' = fs[1] /\ uploadSuccess' = FALSE
          ELSE UNCHANGED <<file, uploadSuccess>>
       /\ lastEvent' = [op |-> "drop", files |-> fs]
       /\ UNCHANGED <<isUploading, inFlight, timers>>
       /\ UNCHANGED routeVars

handleFileChange ==
    \E fs \in FileLists :
       /\ IF Len(fs) > 0
          THEN file' = fs[1] /\ uploadSuccess' = FALSE
          ELSE UNCHANGED <<file, uploadSuccess>>
       /\ lastEvent' = [op |-> "change", files |-> fs]
       /\ UNCHANGED <<isDragging, isUploading, inFlight, timers>>
       /\ UNCHANGED routeVars

\* handleUpload up to the await: the click reaches it only on an enabled button
handleUpload ==
    /\ ~ButtonDisabled
    /\ Len(inFlight) + Len(timers) < MaxTimers
    /\ file # NoFile
    /\ isUploading' = TRUE
    /\ uploadSuccess' = FALSE
    /\ inFlight' = Append(inFlight, file)
    /\ lastEvent' = Event("upload")
    /\ UNCHANGED <<file, isDragging, timers>>
    /\ UNCHANGED routeVars

\* handleUpload after the await: onFileUpload(file) resolves or rejects,
\* then the finally block
UploadSettles ==
    \E i \in 1 .. Len(inFlight), ok \in BOOLEAN :
       /\ uploadSuccess' = IF ok THEN TRUE ELSE uploadSuccess
       /\ isUploading' = FALSE
       /\ timers' = Append(timers, [left |-> ResetDelay, file |-> inFlight[i], ok |-> ok])
       /\ inFlight' = RemoveAt(inFlight, i)
       /\ lastEvent' = Event(IF ok THEN "resolve" ELSE "reject")
       /\ UNCHANGED <<file, isDragging>>
       /\ UNCHANGED routeVars

\* one second passes; a timer that is due fires before more time passes
Tick ==
    /\ timers # <<>>
    /\ \A i \in 1 .. Len(timers) : timers[i].left > 0
    /\ timers' = [i \in 1 .. Len(timers) |-> [timers[i] EXCEPT !.left = @ - 1]]
    /\ lastEvent' = Event("tick")
    /\ UNCHANGED <<file, isDragging, isUploading, uploadSuccess, inFlight>>
    /\ UNCHANGED routeVars

\* mutant: the timer callback clears the selection and keeps the flag
TimerFiresKeepsFlag ==
    /\ timers # <<>>
    /\ Head(timers).left = 0
    /\ file' = NoFile
    /\ timers' = Tail(timers)
    /\ lastEvent' = Event("timeout")
    /\ UNCHANGED <<isDragging, isUploading, uploadSuccess, inFlight>>
    /\ UNCHANGED routeVars

\* the setTimeout callback: handleClearFile()
TimerFires ==
    /\ timers # <<>>
    /\ Head(timers).left = 0
    /\ file' = NoFile
    /\ uploadSuccess' = FALSE
    /\ timers' = Tail(timers)
    /\ lastEvent' = Event("timeout")
    /\ UNCHANGED <<isDragging, isUploading, inFlight>>
    /\ UNCHANGED routeVars

\* handleClearFile from the Remove button, which the preview shows
handleClearFile ==
    /\ file # NoFile
    /\ file' = NoFile
    /\ uploadSuccess' = FALSE
    /\ lastEvent' = Event("remove")
    /\ UNCHANGED <<isDragging, isUploading, inFlight, timers>>
    /\ UNCHANGED routeVars

RouteInit ==
    /\ build \in {"router", "wouter"}
    /\ user = NULL
    /\ isLoading = TRUE
    /\ logout \in LogoutFns \cup {Undefined}
    /\ location \in Paths
    /\ initialRoleRef = RefNull
    /\ logoutCalls = 0
    /\ logoutPending = FALSE

UploadIdle ==
    /\ file = NoFile
    /\ isDragging = FALSE
    /\ isUploading = FALSE
    /\ uploadSuccess = FALSE
    /\ inFlight = <<>>
    /\ timers = <<>>
    /\ lastEvent = Event("mount")

Init == RouteInit /\ UploadIdle

Next == ProviderUpdate \/ ProviderLogout \/ UserNavigate \/ Navigate

Spec == Init /\ [][Next]_vars

\* the Session Provider carries out every logout it is asked for, and a
\* rendered redirect takes effect
RouteFairSpec ==
    /\ Spec
    /\ WF_vars(ProviderLogout)
    /\ WF_vars(Navigate)

\* the widget on /upload, the routing state held still
UploadInit ==
    /\ build = "router"
    /\ user = NULL
    /\ isLoading = TRUE
    /\ logout = Undefined
    /\ location = "/upload"
    /\ initialRoleRef = RefNull
    /\ logoutCalls = 0
    /\ logoutPending = FALSE
    /\ UploadIdle

UploadNext ==
    \/ handleDragEnter
    \/ handleDragLeave
    \/ handleDrop
    \/ handleFileChange
    \/ handleUpload
    \/ UploadSettles
    \/ Tick
    \/ TimerFires
    \/ handleClearFile

UploadSpec == UploadInit /\ [][UploadNext]_vars

\* the event loop lets time pass and runs every due timer callback; the
\* injected operation is taken to settle
UploadFairSpec ==
    /\ UploadSpec
    /\ WF_vars(Tick)
    /\ WF_vars(TimerFires)
    /\ WF_vars(UploadSettles)

\* {file ? preview : drop zone}: the drop zone and the picker are shown
\* while no file is selected
DropZoneShown == file = NoFile

DropOnZone == DropZoneShown /\ handleDrop

PickOnZone == DropZoneShown /\ handleFileChange

\* the widget with selections arriving only while the drop zone is shown
UploadStrictNext ==
    \/ handleDragEnter
    \/ handleDragLeave
    \/ DropOnZone
    \/ PickOnZone
    \/ handleUpload
    \/ UploadSettles
    \/ Tick
    \/ TimerFires
    \/ handleClearFile

UploadStrictSpec == UploadInit /\ [][UploadStrictNext]_vars

UploadStrictFairSpec ==
    /\ UploadStrictSpec
    /\ WF_vars(Tick)
    /\ WF_vars(TimerFires)
    /\ WF_vars(UploadSettles)

----------------------------------------------------------------------------
(* Claims on the routing components *)

\* the role -> landing path table as documented
DocumentedLanding(role) ==
    CASE role \in {"super_admin", "admin"} -> "/admin"
      [] role = "builder" -> "/builder-dashboard"
      [] role = "telecaller" -> "/telecaller"
      [] role = "broker" -> "/broker"
      [] role = "ca" -> "/ca"
      [] OTHER -> "/dashboard"

\* C1: for the role of any session, getRoleBasedRoute returns the documented
\* path of a mapped role and /dashboard for every other string.
C1_RoleRouterMatchesTable ==
    user # NULL => getRoleBasedRoute(user.role) = DocumentedLanding(user.role)

\* C2: while isLoading is true the Route Guard and the Public Route Gate render
\* the placeholder and nothing else, whatever the session.
C2_NoRedirectWhileLoading ==
    (isLoading /\ location \in (ProtectedPaths \cup PublicPaths)) => View = Spinner

C2_Witness ==
    /\ isLoading
    /\ user # NULL
    /\ location = "/login"
    /\ build = "router"

\* C3 as stated: while a guard stays mounted, a step between two sessions
\* invokes logout once if the role changed and not at all if it did not
\* (a logout operation being supplied and a baseline recorded).
C3_LogoutOncePerRoleChange ==
    [][(/\ GuardMounted(location) /\ GuardMounted(location')
        /\ user # NULL /\ user' # NULL
        /\ logout' # Undefined /\ ~Falsy(initialRoleRef))
       => logoutCalls' = (IF user'.role # user.role THEN 1 ELSE 0)]_vars

\* C3 amended: while a guard stays mounted, a commit invokes logout exactly
\* once when it delivers a new session object or logout function, the session's
\* role differs from the recorded non-empty baseline and a logout operation is
\* supplied; every other commit invokes it zero times.
C3_LogoutOncePerDriftedCommit ==
    [][(GuardMounted(location) /\ GuardMounted(location'))
       => logoutCalls' = (IF /\ user' # NULL
                             /\ <<user', logout'>> # <<user, logout>>
                             /\ ~Falsy(initialRoleRef)
                             /\ initialRoleRef # user'.role
                             /\ logout' # Undefined
                          THEN 1 ELSE 0)]_vars

C3_Witness ==
    /\ GuardMounted(location)
    /\ user # NULL
    /\ ~Falsy(initialRoleRef)
    /\ initialRoleRef # user.role
    /\ logoutCalls = 1

\* C4: with loading finished and no session the Route Guard redirects to
\* /login; it renders the layout with the child view only with loading
\* finished and a session present.
C4_GuardRedirectsAnonymous ==
    GuardMounted(location) =>
        /\ (~isLoading /\ user = NULL) => View = Redirect("/login")
        /\ View.kind = "layout" => (~isLoading /\ user # NULL)
        /\ View.kind # "children"

C4_Witness ==
    /\ GuardMounted(location)
    /\ ~isLoading
    /\ user = NULL
    /\ build = "wouter"

C6_RootRedirectWaits ==
    location = "/" =>
        IF isLoading THEN View.kind # "redirect"
        ELSE View = Redirect(IF user = NULL THEN "/login" ELSE getRoleBasedRoute(user.role))

----------------------------------------------------------------------------
(* Claims on the Upload Widget *)

\* C7: a rejected upload leaves the selected file selected and the widget
\* ready for resubmission, and the reset timer of a rejected upload does not
\* clear the file that upload was made for.
C7_RejectedUploadKeepsFile ==
    [][/\ lastEvent'.op = "reject" =>
             /\ file' = file
             /\ ~isUploading'
             /\ ~uploadSuccess'
             /\ file' # NoFile => ~(file' = NoFile \/ isUploading' \/ uploadSuccess')
       /\ (/\ lastEvent'.op = "timeout"
           /\ ~Head(timers).ok
           /\ Head(timers).file = file)
          => file' = file]_vars

\* C8: a submit invokes the injected operation exactly once, with the selected
\* file; no invocation starts while no file is selected, an upload is in
\* flight or the success flag is set; at most one invocation is in flight.
C8_OneInvocationPerSubmit ==
    [][/\ Len(inFlight') <= 1
       /\ lastEvent'.op = "upload" => (file # NoFile /\ inFlight' = Append(inFlight, file))
       /\ (file = NoFile \/ isUploading \/ uploadSuccess) => Len(inFlight') <= Len(inFlight)]_vars

C8_Witness ==
    /\ lastEvent.op = "upload"
    /\ Len(inFlight) = 1
    /\ isUploading
    /\ Len(timers) = 1

EmptyState == file = NoFile /\ ~uploadSuccess /\ ~isUploading

C10_SelectionTakesFirstFile ==
    [][lastEvent'.op \in {"drop", "change"} =>
          IF Len(lastEvent'.files) > 0
          THEN file' = lastEvent'.files[1] /\ ~uploadSuccess'
          ELSE file' = file /\ uploadSuccess' = uploadSuccess]_vars

C10_Witness ==
    /\ lastEvent.op = "drop"
    /\ Len(lastEvent.files) = 2
    /\ lastEvent.files[1] # lastEvent.files[2]
    /\ file = lastEvent.files[1]
    /\ ~uploadSuccess
    /\ timers # <<>>
    /\ Head(timers).ok
    /\ Head(timers).file # file

----------------------------------------------------------------------------
(* Claims on the guard's baseline and on role drift *)

\* C11: once the mounted guard's baseline has been set from a session, no
\* later commit changes it while the guard instance stays mounted.
C11_BaselineWrittenOnce ==
    [][(/\ GuardMounted(location) /\ GuardMounted(location')
        /\ initialRoleRef # RefNull)
       => initialRoleRef' = initialRoleRef]_vars

\* the guard renders the layout and child view for a session whose role
\* differs from the recorded baseline
DriftRendered ==
    /\ GuardMounted(location)
    /\ user # NULL
    /\ initialRoleRef # RefNull
    /\ initialRoleRef # user.role
    /\ View.kind = "layout"

\* C12: a commit that shows the mounted guard a session whose role differs
\* from the baseline invokes logout, and the guard does not go on rendering
\* the child view for such a session forever.
C12_DriftEndsChildView ==
    /\ [][(/\ GuardMounted(location')
           /\ user' # NULL
           /\ <<user', logout'>> # <<user, logout>>
           /\ initialRoleRef' # user'.role)
          => logoutCalls' = 1]_vars
    /\ DriftRendered ~> ~DriftRendered

----------------------------------------------------------------------------
(* Claims on the Upload Widget's reset timer and flags *)

\* C13: the reset timer of an upload clears only the selection that upload
\* was made for: when it fires it leaves alone a selected file other than the
\* one its upload was given, and the file and success flag of an upload that is
\* in flight or has succeeded since.  Stated for the timers of resolved
\* uploads, the ones meant to reset the widget.
C13_TimerClearsOwnSelectionOnly ==
    [][(lastEvent'.op = "timeout" /\ Head(timers).ok) =>
          /\ (file # NoFile /\ Head(timers).file # file) => file' = file
          /\ isUploading => file' = file
          /\ (uploadSuccess /\ Len(timers) > 1) => (file' = file /\ uploadSuccess')]_vars

\* C14: the flags describe exactly one of empty / selected / uploading /
\* succeeded: isUploading and uploadSuccess are never both true, and neither
\* is true while no file is selected.
C14_FlagsDescribeOneState ==
    /\ ~(isUploading /\ uploadSuccess)
    /\ file = NoFile => (~isUploading /\ ~uploadSuccess)

====
